---- MODULE Spec2Model ----
(***************************************************************************)
(* State-machine model of the hotk hotkey manager (src/src/index.ts):      *)
(* the module-level manager state (globals, locals, root,                  *)
(* timeoutRecoverRoot), the HotKey class (builder, fire, fireSubactions)   *)
(* and the manager operations (handleEvent, register, unregister,          *)
(* recoverRoot, destroy).  The native core (@hotk/core) is an external     *)
(* collaborator and is modelled from its contract.                         *)
(***************************************************************************)
EXTENDS Integers, Sequences, FiniteSets, TLC

(***************************************************************************)
(* Bounds of the model.                                                    *)
(***************************************************************************)
\* Date.now() runs from 0 to MaxTime.
MaxTime == 3
\* Largest numeric subactionsTimeout drawn for a definition.
MaxSubTimeout == 1
\* Largest strokeTimeout drawn for a definition.
MaxStrokeTimeout == 1
\* Longest subaction list the builder model assembles.
MaxChildren == 2
\* The history counts the subaction contexts entered up to MaxDepth.
MaxDepth == 2

\* Consecutive presses of one definition the history counts.
MaxPresses == 4

(***************************************************************************)
(* Program constants.                                                      *)
(***************************************************************************)
\* new Date(-8640000000000000).getTime(): the "never" timestamp.  The value
\* is scaled into TLC's 32-bit integers; it lies below every clock value by
\* more than any stroke timeout, which is all the code uses it for.
MinDate == -1000000000
\* The largest delay setTimeout accepts (Math.min(timeout, 2147483647)).
MaxDelay == 2147483647
\* Number.NaN as a value of subactionsTimeout (no revert timer is scheduled).
NaN == -1

isNaN(t) == t = NaN

Min(a, b) == IF a <= b THEN a ELSE b

\* enum Stroke
Stroke == {"Single", "Double"}

(***************************************************************************)
(* The HotKey instances of the model.  Each is one `new HotKey(mods,code)`: *)
(* hB and hB2 are two distinct instances declared with the same            *)
(* combination; hX is declared on a combination the native core refuses.   *)
(***************************************************************************)
HotKeys == {"hA", "hB", "hB2", "hZ", "hX"}

mods(h) == IF h = "hA" THEN <<"Control">> ELSE <<>>

code(h) ==
    CASE h = "hA" -> "KeyA"
      [] h = "hB" -> "KeyB"
      [] h = "hB2" -> "KeyB"
      [] h = "hZ" -> "KeyZ"
      [] h = "hX" -> "KeyX"

\* Position of a key code / bit of a modifier in the native enumerations.
KeyCodeIndex(c) ==
    CASE c = "KeyA" -> 1
      [] c = "KeyB" -> 2
      [] c = "KeyZ" -> 3
      [] c = "KeyX" -> 4

ModBit(m) ==
    CASE m = "Control" -> 1
      [] m = "Shift" -> 2
      [] m = "Alt" -> 4

RECURSIVE ModMask(_)
ModMask(ms) ==
    IF ms = {} THEN 0
    ELSE LET m == CHOOSE x \in ms : TRUE
         IN ModBit(m) + ModMask(ms \ {m})

\* getHotkeyId(code, mods) of the native core: a number determined by the
\* key code and the SET of modifiers (insertion order does not matter).
getHotkeyId(c, ms) ==
    KeyCodeIndex(c) * 8 + ModMask({ms[i] : i \in 1..Len(ms)})

\* HotKey.id, set by the constructor.
id(h) == getHotkeyId(code(h), mods(h))

Ids == {id(h) : h \in HotKeys}

(***************************************************************************)
(* State.                                                                  *)
(***************************************************************************)
VARIABLES
    hk,                  \* the private fields of every HotKey instance
    globals,             \* { [key: number]: HotKey }
    locals,              \* { [key: number]: HotKey }
    root,                \* HotKey[] | undefined
    timeoutRecoverRoot,  \* NodeJS.Timeout | undefined (0 is undefined)
    timers,              \* the timeouts the event loop still has to run
    lastHotKey,          \* HotKey.lastHotKey
    lastFire,            \* HotKey.lastFire
    native,              \* the combinations the native core holds for us
    unavailable,         \* the combinations the native core refuses
    destroyed,           \* innerManager.destroy() was called
    now,                 \* Date.now()
    evt,                 \* record of the operation that produced this state
    hist                 \* history of the run that the properties refer to

vars == <<hk, globals, locals, root, timeoutRecoverRoot, timers, lastHotKey,
          lastFire, native, unavailable, destroyed, now, evt, hist>>

\* `undefined` as the value of root (no HotKey is named "undefined").
Undefined == <<"undefined">>

\* The empty object {}.
EmptyMap == [k \in {} |-> "none"]

Put(f, k, v) == [x \in (DOMAIN f) \cup {k} |-> IF x = k THEN v ELSE f[x]]

Del(f, k) == [x \in (DOMAIN f) \ {k} |-> f[x]]

\* Object.values(o) of an object with integer keys: ascending key order.
RECURSIVE ObjectValues(_)
ObjectValues(o) ==
    IF DOMAIN o = {} THEN <<>>
    ELSE LET k == CHOOSE x \in DOMAIN o : \A y \in DOMAIN o : x <= y
         IN <<o[k]>> \o ObjectValues(Del(o, k))

\* The fields a `new HotKey(...)` starts with.
NewHotKey ==
    [_stroke |-> "Single", _strokeTimeout |-> 1000, _action |-> "noop",
     _subactions |-> <<>>, _subactionsTimeout |-> 1000, _backToRoot |-> TRUE,
     _global |-> FALSE]

(***************************************************************************)
(* The manager state an operation works on, threaded through the model of  *)
(* each function: the source variables it can assign, plus what it did     *)
(* (actions invoked, native calls made, the error it threw).               *)
(***************************************************************************)
Cur ==
    [globals |-> globals, locals |-> locals, root |-> root,
     timeoutRecoverRoot |-> timeoutRecoverRoot, timers |-> timers,
     lastHotKey |-> lastHotKey, lastFire |-> lastFire, native |-> native,
     invoked |-> <<>>, calls |-> 0, err |-> FALSE]

\* innerManager.register(mods, code): captured unless the native core was
\* destroyed, already holds the combination or refuses it.
nativeRegister(s, h) ==
    LET ok == ~destroyed /\ id(h) \notin s.native /\ id(h) \notin unavailable
    IN [st |-> [s EXCEPT !.calls = @ + 1,
                         !.native = IF ok THEN @ \cup {id(h)} ELSE @],
        ok |-> ok, id |-> id(h)]

\* innerManager.unregister(mods, code): released if it was held.
nativeUnregister(s, h) ==
    LET ok == ~destroyed /\ id(h) \in s.native
    IN [st |-> [s EXCEPT !.calls = @ + 1,
                         !.native = IF ok THEN @ \ {id(h)} ELSE @],
        ok |-> ok, id |-> id(h)]

\* A register that puts every definition into locals, whatever isGlobal is.
registerAlwaysLocal(s, hotKey, isGlobal) ==
    IF id(hotKey) \in DOMAIN s.locals \/ id(hotKey) \in DOMAIN s.globals
    THEN [s EXCEPT !.err = TRUE]
    ELSE LET result == nativeRegister(s, hotKey)
         IN IF result.ok
            THEN [result.st EXCEPT !.locals = Put(@, result.id, hotKey)]
            ELSE result.st

\* A register that looks for the identity in locals only.
registerLocalsOnly(s, hotKey, isGlobal) ==
    IF id(hotKey) \in DOMAIN s.locals
    THEN [s EXCEPT !.err = TRUE]
    ELSE LET result == nativeRegister(s, hotKey)
         IN IF result.ok
            THEN IF isGlobal
                 THEN [result.st EXCEPT !.globals = Put(@, result.id, hotKey)]
                 ELSE [result.st EXCEPT !.locals = Put(@, result.id, hotKey)]
            ELSE result.st

\* A register that looks only into the scope it inserts into, and inserts
\* whatever the native core answers.
registerScopedUnchecked(s, hotKey, isGlobal) ==
    IF id(hotKey) \in DOMAIN (IF isGlobal THEN s.globals ELSE s.locals)
    THEN [s EXCEPT !.err = TRUE]
    ELSE LET result == nativeRegister(s, hotKey)
         IN IF isGlobal
            THEN [result.st EXCEPT !.globals = Put(@, result.id, hotKey)]
            ELSE [result.st EXCEPT !.locals = Put(@, result.id, hotKey)]

\* manager.register(hotKey, isGlobal)
register(s, hotKey, isGlobal) ==
    IF id(hotKey) \in DOMAIN s.locals \/ id(hotKey) \in DOMAIN s.globals
    THEN [s EXCEPT !.err = TRUE]
    ELSE LET result == nativeRegister(s, hotKey)
         IN IF result.ok
            THEN IF isGlobal
                 THEN [result.st EXCEPT !.globals = Put(@, result.id, hotKey)]
                 ELSE [result.st EXCEPT !.locals = Put(@, result.id, hotKey)]
            ELSE result.st

\* manager.unregister(hotKey)
unregister(s, hotKey) ==
    LET result == nativeUnregister(s, hotKey)
    IN IF result.ok
       THEN [result.st EXCEPT !.locals = Del(@, result.id),
                              !.globals = Del(@, result.id)]
       ELSE result.st

\* for (const hotKey of hotKeys) manager.unregister(hotKey)
RECURSIVE unregisterAll(_, _)
unregisterAll(s, hotKeys) ==
    IF hotKeys = <<>> THEN s
    ELSE unregisterAll(unregister(s, Head(hotKeys)), Tail(hotKeys))

\* for (const hotKey of hotKeys) manager.register(hotKey, false): the loop
\* ends at the first register that throws.
RECURSIVE registerAll(_, _)
registerAll(s, hotKeys) ==
    IF hotKeys = <<>> \/ s.err THEN s
    ELSE registerAll(register(s, Head(hotKeys), FALSE), Tail(hotKeys))

\* clearLocals()
clearLocals(s) == unregisterAll(s, ObjectValues(s.locals))

\* clearInterval(handle): a handle that is not pending is ignored.
clearInterval(s, handle) ==
    [s EXCEPT !.timers = {t \in @ : t.handle # handle}]

\* setTimeout(callback, delay): a handle no pending timeout carries.
setTimeout(s, delay) ==
    LET used == {t.handle : t \in s.timers}
        handle == CHOOSE n \in 1..(Cardinality(used) + 1) : n \notin used
    IN [s EXCEPT !.timers = @ \cup {[handle |-> handle, at |-> now + delay]},
                 !.timeoutRecoverRoot = handle]

\* A withSnapshot that schedules its timeout without clearing the pending
\* one.
withSnapshotKeepsTimer(s, hotKeys, timeout) ==
    LET s2 == IF s.root = Undefined
              THEN [s EXCEPT !.root = ObjectValues(s.locals)] ELSE s
        s3 == clearLocals(s2)
        s4 == registerAll(s3, hotKeys)
    IN IF s4.err THEN s4
       ELSE IF ~isNaN(timeout) THEN setTimeout(s4, Min(timeout, MaxDelay))
       ELSE s4

\* A withSnapshot that adds the subactions to the locals it finds.
withSnapshotAdditive(s, hotKeys, timeout) ==
    LET s1 == IF s.timeoutRecoverRoot # 0
              THEN clearInterval(s, s.timeoutRecoverRoot) ELSE s
        s2 == IF s1.root = Undefined
              THEN [s1 EXCEPT !.root = ObjectValues(s1.locals)] ELSE s1
        s4 == registerAll(s2, hotKeys)
    IN IF s4.err THEN s4
       ELSE IF ~isNaN(timeout) THEN setTimeout(s4, Min(timeout, MaxDelay))
       ELSE s4

\* A withSnapshot that takes the snapshot on every descent.
withSnapshotEveryDescent(s, hotKeys, timeout) ==
    LET s1 == IF s.timeoutRecoverRoot # 0
              THEN clearInterval(s, s.timeoutRecoverRoot) ELSE s
        s2 == [s1 EXCEPT !.root = ObjectValues(s1.locals)]
        s3 == clearLocals(s2)
        s4 == registerAll(s3, hotKeys)
    IN IF s4.err THEN s4
       ELSE IF ~isNaN(timeout) THEN setTimeout(s4, Min(timeout, MaxDelay))
       ELSE s4

\* withSnapshot(hotKeys, timeout)
withSnapshot(s, hotKeys, timeout) ==
    LET s1 == IF s.timeoutRecoverRoot # 0
              THEN clearInterval(s, s.timeoutRecoverRoot) ELSE s
        s2 == IF s1.root = Undefined
              THEN [s1 EXCEPT !.root = ObjectValues(s1.locals)] ELSE s1
        s3 == clearLocals(s2)
        s4 == registerAll(s3, hotKeys)
    IN IF s4.err THEN s4
       ELSE IF ~isNaN(timeout) THEN setTimeout(s4, Min(timeout, MaxDelay))
       ELSE s4

\* A recoverRoot that registers the snapshot on top of the locals it finds.
recoverRootKeepsLocals(s) ==
    IF s.root = Undefined THEN s
    ELSE LET s1 == clearInterval(s, s.timeoutRecoverRoot)
             s3 == registerAll(s1, s1.root)
         IN IF s3.err THEN s3
            ELSE [s3 EXCEPT !.root = Undefined, !.timeoutRecoverRoot = 0]

\* A recoverRoot without its early return: with no snapshot it restores an
\* empty one.
recoverRootUnguarded(s) ==
    LET s1 == clearInterval(s, s.timeoutRecoverRoot)
        s2 == clearLocals(s1)
        s3 == registerAll(s2, IF s2.root = Undefined THEN <<>> ELSE s2.root)
    IN IF s3.err THEN s3
       ELSE [s3 EXCEPT !.root = Undefined, !.timeoutRecoverRoot = 0]

\* manager.recoverRoot()
recoverRoot(s) ==
    IF s.root = Undefined THEN s
    ELSE LET s1 == clearInterval(s, s.timeoutRecoverRoot)
             s2 == clearLocals(s1)
             s3 == registerAll(s2, s2.root)
         IN IF s3.err THEN s3
            ELSE [s3 EXCEPT !.root = Undefined, !.timeoutRecoverRoot = 0]

\* HotKey.fireSubactions()
fireSubactions(s, this) ==
    IF Len(hk[this]._subactions) = 0
    THEN recoverRoot(s)
    ELSE withSnapshot(s, hk[this]._subactions, hk[this]._subactionsTimeout)

\* this._action(): the callback the definition was given; "recoverRoot" is
\* a callback that calls manager.recoverRoot().
runAction(s, this) ==
    LET s1 == [s EXCEPT !.invoked = Append(@, this)]
    IN IF hk[this]._action = "recoverRoot" THEN recoverRoot(s1) ELSE s1

\* A fire that takes any pending stroke for its own (no look at lastHotKey).
fireAnyPending(s, this) ==
    LET doFire ==
            \/ hk[this]._stroke = "Single"
            \/ now - s.lastFire <= hk[this]._strokeTimeout
    IN IF doFire
       THEN LET s1 == [s EXCEPT !.lastFire = MinDate]
                s2 == runAction(s1, this)
                s3 == IF s2.err THEN s2 ELSE fireSubactions(s2, this)
            IN IF s3.err THEN s3 ELSE [s3 EXCEPT !.lastHotKey = this]
       ELSE [s EXCEPT !.lastFire = now, !.lastHotKey = this]

\* A fire that leaves the pending stroke in place when it fires.
fireKeepsPending(s, this) ==
    LET doFire ==
            \/ hk[this]._stroke = "Single"
            \/ /\ s.lastHotKey = this
               /\ now - s.lastFire <= hk[this]._strokeTimeout
    IN IF doFire
       THEN LET s2 == runAction(s, this)
                s3 == IF s2.err THEN s2 ELSE fireSubactions(s2, this)
            IN IF s3.err THEN s3 ELSE [s3 EXCEPT !.lastHotKey = this]
       ELSE [s EXCEPT !.lastFire = now, !.lastHotKey = this]

\* A fire whose stroke window excludes its boundary (< for <=).
fireStrictWindow(s, this) ==
    LET doFire ==
            \/ hk[this]._stroke = "Single"
            \/ /\ s.lastHotKey = this
               /\ now - s.lastFire < hk[this]._strokeTimeout
    IN IF doFire
       THEN LET s1 == [s EXCEPT !.lastFire = MinDate]
                s2 == runAction(s1, this)
                s3 == IF s2.err THEN s2 ELSE fireSubactions(s2, this)
            IN IF s3.err THEN s3 ELSE [s3 EXCEPT !.lastHotKey = this]
       ELSE [s EXCEPT !.lastFire = now, !.lastHotKey = this]

\* A fire that holds every definition to the double-stroke window.
fireAlwaysWindow(s, this) ==
    LET doFire ==
            /\ s.lastHotKey = this
            /\ now - s.lastFire <= hk[this]._strokeTimeout
    IN IF doFire
       THEN LET s1 == [s EXCEPT !.lastFire = MinDate]
                s2 == runAction(s1, this)
                s3 == IF s2.err THEN s2 ELSE fireSubactions(s2, this)
            IN IF s3.err THEN s3 ELSE [s3 EXCEPT !.lastHotKey = this]
       ELSE [s EXCEPT !.lastFire = now, !.lastHotKey = this]

\* HotKey.fire()
fire(s, this) ==
    LET doFire ==
            \/ hk[this]._stroke = "Single"
            \/ /\ s.lastHotKey = this
               /\ now - s.lastFire <= hk[this]._strokeTimeout
    IN IF doFire
       THEN LET s1 == [s EXCEPT !.lastFire = MinDate]
                s2 == runAction(s1, this)
                s3 == IF s2.err THEN s2 ELSE fireSubactions(s2, this)
            IN IF s3.err THEN s3 ELSE [s3 EXCEPT !.lastHotKey = this]
       ELSE [s EXCEPT !.lastFire = now, !.lastHotKey = this]

\* The handler manager.handleEvent looks up: globals[event.id] || locals[event.id]
handlerOf(s, eid) ==
    IF eid \in DOMAIN s.globals THEN s.globals[eid]
    ELSE IF eid \in DOMAIN s.locals THEN s.locals[eid]
    ELSE "none"

\* manager.handleEvent(event)
handleEvent(s, event) ==
    LET handler == handlerOf(s, event.id)
    IN IF event.eventType = "Pressed" /\ handler # "none"
       THEN fire(s, handler)
       ELSE s

(***************************************************************************)
(* Definitions the runs start from.  Each is a tree the builder produces   *)
(* (a global definition has no subactions).                                *)
(***************************************************************************)
Leaf == [NewHotKey EXCEPT !._strokeTimeout = MaxStrokeTimeout]

\* The README's tree: Ctrl+A (double stroke) > B (double stroke) > Z, each
\* level with a subactions timeout, and a global single-stroke hotkey whose
\* action recovers the root (the test file's Escape).  Ctrl+A's own action
\* recovers the root as well, and B also offers X, which the native core
\* refuses.
Chained ==
    [hA |-> [Leaf EXCEPT !._stroke = "Double", !._action = "recoverRoot",
                         !._subactions = <<"hB">>,
                         !._subactionsTimeout = MaxSubTimeout],
     hB |-> [Leaf EXCEPT !._stroke = "Double", !._subactions = <<"hZ", "hX">>,
                         !._subactionsTimeout = MaxSubTimeout],
     hB2 |-> [Leaf EXCEPT !._action = "recoverRoot", !._global = TRUE],
     hZ |-> [Leaf EXCEPT !._backToRoot = FALSE],
     hX |-> Leaf]

\* A flat tree: Ctrl+A (single stroke) opens X and Z without timeout; Z
\* (double stroke) opens a list in which B2, a global double-stroke hotkey,
\* repeats B's combination.
Flat ==
    [hA |-> [Leaf EXCEPT !._subactions = <<"hX", "hZ">>,
                         !._subactionsTimeout = NaN],
     hB |-> Leaf,
     hB2 |-> [Leaf EXCEPT !._stroke = "Double", !._global = TRUE],
     hZ |-> [Leaf EXCEPT !._stroke = "Double",
                         !._subactions = <<"hB", "hB2", "hA">>,
                         !._subactionsTimeout = MaxSubTimeout],
     hX |-> Leaf]

Definitions == {Chained, Flat}

\* Definitions for the stroke detector: Ctrl+A (double stroke) and the
\* global B (double stroke) stay active when they fire; B2 (single stroke)
\* repeats B's combination; Z (double stroke) opens Ctrl+A and X.
Strokes ==
    [hA |-> [Leaf EXCEPT !._stroke = "Double"],
     hB |-> [Leaf EXCEPT !._stroke = "Double", !._global = TRUE],
     hB2 |-> Leaf,
     hZ |-> [Leaf EXCEPT !._stroke = "Double", !._subactions = <<"hA", "hX">>,
                         !._subactionsTimeout = MaxSubTimeout],
     hX |-> Leaf]

NoEvent ==
    [op |-> "init", hk |-> "none", fired |-> FALSE, invoked |-> <<>>,
     calls |-> 0, err |-> FALSE]

NoPress == [hk |-> "none", at |-> 0, fired |-> FALSE]

NoHistory ==
    [prevPress |-> NoPress, base |-> {}, pure |-> 0, recovered |-> 0,
     armed |-> FALSE, keep |-> "plain", ctx |-> "none",
     strokes |-> [prev2 |-> NoPress, alt |-> FALSE, n |-> 0, fires |-> 0],
     gone |-> "none"]

\* The state of a manager that has just been loaded.
Fresh ==
    /\ globals = EmptyMap
    /\ locals = EmptyMap
    /\ root = Undefined
    /\ timeoutRecoverRoot = 0
    /\ timers = {}
    /\ lastHotKey = "null"
    /\ lastFire = MinDate
    /\ native = {}
    /\ unavailable = {id("hX")}
    /\ destroyed = FALSE
    /\ now = 0
    /\ evt = NoEvent

Init ==
    /\ hk \in Definitions
    /\ Fresh
    /\ hist = NoHistory

\* The source variables after an operation that ended in state s.
Becomes(s) ==
    /\ globals' = s.globals
    /\ locals' = s.locals
    /\ root' = s.root
    /\ timeoutRecoverRoot' = s.timeoutRecoverRoot
    /\ timers' = s.timers
    /\ lastHotKey' = s.lastHotKey
    /\ lastFire' = s.lastFire
    /\ native' = s.native

\* What an operation that ended in state s leaves in the event record.
Outcome(op, h, s) ==
    [op |-> op, hk |-> h, fired |-> s.invoked # <<>>, invoked |-> s.invoked,
     calls |-> s.calls, err |-> s.err]

\* The history after an operation op (on h) that ended in state s:
\*   prevPress  the last pressed event that reached a handler;
\*   base       the identities that were local when the snapshot was taken
\*              (kept over the operation that clears the snapshot);
\*   pure       the subaction contexts entered (counted up to MaxDepth)
\*              since the snapshot was taken, while only events, timeouts
\*              and recoverRoot() calls have happened since; 0 otherwise;
\*   recovered  the value of pure that this operation's recoverRoot()
\*              ended, 0 if it ended none;
\*   keep       what else the run keeps ("plain": nothing);
\*   ctx        kept in the runs that start with keep = "context": the
\*              definition whose subactions were last handed to
\*              withSnapshot, "none" when no snapshot is pending;
\*   strokes    kept in the runs that start with keep = "strokes":
\*     prev2    the pressed event that reached a handler before prevPress;
\*     alt      prevPress came within its definition's stroke timeout of an
\*              earlier press of that definition, with just the press of
\*              another definition (prev2) between the two;
\*     n        how many pressed events in a row (counted up to
\*              MaxPresses) reached the definition of prevPress, each
\*              within that definition's stroke timeout of the one before;
\*     fires    how many of those fired;
\*   gone       kept in the runs that start with keep = "unregistered": the
\*              definition the application has last called unregister()
\*              for, "none" once register() was called for it
\*              (withSnapshot's register() of a subaction counts as one);
\*   armed      a definition with subactions and a numeric subactions
\*              timeout has fired and handed them to withSnapshot, and
\*              since then only time has passed and timeouts have run.
History(op, h, s) ==
    LET entered == IF op = "press" /\ s.invoked # <<>>
                   THEN runAction(Cur, h) ELSE Cur
        taken == entered.root = Undefined /\ s.root # Undefined
        descends == op = "press" /\ s.invoked # <<>> /\ ~entered.err
                    /\ hk[h]._subactions # <<>>
    IN [prevPress |-> IF op = "press" /\ h # "none"
                      THEN [hk |-> h, at |-> now, fired |-> s.invoked # <<>>]
                      ELSE hist.prevPress,
        base |-> IF taken THEN DOMAIN entered.locals
                 ELSE IF root = Undefined /\ s.root = Undefined THEN {}
                 ELSE hist.base,
        pure |-> IF taken THEN 1
                 ELSE IF s.root = Undefined \/ hist.pure = 0 THEN 0
                 ELSE IF op \notin {"press", "released", "timer",
                                    "recoverRoot"} THEN 0
                 ELSE IF descends THEN Min(hist.pure + 1, MaxDepth)
                 ELSE hist.pure,
        recovered |-> IF root # Undefined /\ s.root = Undefined
                      THEN hist.pure ELSE 0,
        armed |-> IF descends /\ ~isNaN(hk[h]._subactionsTimeout) THEN TRUE
                  ELSE hist.armed /\ op = "timer",
        keep |-> hist.keep,
        ctx |-> IF hist.keep # "context" \/ s.root = Undefined THEN "none"
                ELSE IF descends THEN h ELSE hist.ctx,
        strokes |->
            IF hist.keep # "strokes" \/ op # "press" \/ h = "none"
            THEN hist.strokes
            ELSE LET fired == IF s.invoked # <<>> THEN 1 ELSE 0
                     inRun == /\ hist.prevPress.hk = h
                              /\ now - hist.prevPress.at <= hk[h]._strokeTimeout
                 IN [prev2 |-> hist.prevPress,
                     alt |-> /\ hist.prevPress.hk \notin {h, "none"}
                             /\ hist.strokes.prev2.hk = h
                             /\ now - hist.strokes.prev2.at
                                    <= hk[h]._strokeTimeout,
                     n |-> IF ~inRun THEN 1
                           ELSE Min(hist.strokes.n + 1, MaxPresses),
                     fires |-> IF ~inRun THEN fired
                               ELSE IF hist.strokes.n = MaxPresses
                               THEN hist.strokes.fires
                               ELSE hist.strokes.fires + fired],
        gone |-> IF hist.keep # "unregistered" THEN "none"
                 ELSE IF op = "unregister" THEN h
                 ELSE IF op = "register" /\ h = hist.gone THEN "none"
                 ELSE IF descends
                         /\ \E i \in 1..Len(hk[h]._subactions) :
                               hk[h]._subactions[i] = hist.gone
                 THEN "none"
                 ELSE hist.gone]

(***************************************************************************)
(* Operations.                                                             *)
(***************************************************************************)
\* hotKey.register(): manager.register(this, this._global)
Register(h) ==
    /\ ~destroyed
    /\ \E s \in {register(Cur, h, hk[h]._global)} :
          /\ Becomes(s)
          /\ evt' = Outcome("register", h, s)
          /\ hist' = History("register", h, s)
    /\ UNCHANGED <<hk, unavailable, destroyed, now>>

\* hotKey.unregister(): manager.unregister(this)
Unregister(h) ==
    /\ ~destroyed
    /\ \E s \in {unregister(Cur, h)} :
          /\ Becomes(s)
          /\ evt' = Outcome("unregister", h, s)
          /\ hist' = History("unregister", h, s)
    /\ UNCHANGED <<hk, unavailable, destroyed, now>>

\* The native core delivers an event to the callback given to init().  No
\* event is dispatched after destroy(); the clock guard keeps every timeout
\* an event schedules within the modelled time.
Dispatch(eid, eventType) ==
    /\ ~destroyed
    /\ now + MaxSubTimeout <= MaxTime
    /\ \E s \in {handleEvent(Cur, [id |-> eid, eventType |-> eventType])},
          h \in {IF eventType = "Pressed" THEN handlerOf(Cur, eid) ELSE "none"},
          op \in {IF eventType = "Pressed" THEN "press" ELSE "released"} :
          /\ Becomes(s)
          /\ evt' = Outcome(op, h, s)
          /\ hist' = History(op, h, s)
    /\ UNCHANGED <<hk, unavailable, destroyed, now>>

\* manager.recoverRoot() called by the application.
RecoverRoot ==
    /\ ~destroyed
    /\ \E s \in {recoverRoot(Cur)} :
          /\ Becomes(s)
          /\ evt' = Outcome("recoverRoot", "none", s)
          /\ hist' = History("recoverRoot", "none", s)
    /\ UNCHANGED <<hk, unavailable, destroyed, now>>

\* The event loop runs a timeout that is due: () => manager.recoverRoot()
TimerExpire ==
    /\ \E t \in timers :
          /\ t.at <= now
          /\ \E s \in {recoverRoot([Cur EXCEPT !.timers = @ \ {t}])} :
                /\ Becomes(s)
                /\ evt' = Outcome("timer", "none", s)
                /\ hist' = History("timer", "none", s)
    /\ UNCHANGED <<hk, unavailable, destroyed, now>>

\* manager.destroy(): innerManager.destroy() releases the native resources.
Destroy ==
    /\ ~destroyed
    /\ destroyed' = TRUE
    /\ native' = {}
    /\ evt' = [NoEvent EXCEPT !.op = "destroy", !.calls = 1]
    /\ hist' = [hist EXCEPT !.pure = 0, !.recovered = 0, !.armed = FALSE]
    /\ UNCHANGED <<hk, globals, locals, root, timeoutRecoverRoot, timers,
                   lastHotKey, lastFire, unavailable, now>>

\* A millisecond passes.
Tick ==
    /\ now < MaxTime
    /\ now' = now + 1
    /\ evt' = [NoEvent EXCEPT !.op = "tick"]
    /\ UNCHANGED <<hk, globals, locals, root, timeoutRecoverRoot, timers,
                   lastHotKey, lastFire, native, unavailable, destroyed, hist>>

Next ==
    \/ \E h \in HotKeys : Register(h)
    \/ \E h \in HotKeys : Unregister(h)
    \/ \E eid \in Ids, eventType \in {"Pressed", "Released"} :
          Dispatch(eid, eventType)
    \/ RecoverRoot
    \/ TimerExpire
    \/ Destroy
    \/ Tick

Spec == Init /\ [][Next]_vars

\* A timeout is due (this is ENABLED <<TimerExpire>>_vars: running a due
\* timeout removes it from timers).
TimerDue == \E t \in timers : t.at <= now

\* WF_vars(TimerExpire), with ENABLED written out as TimerDue.
TimerFairness == []<>(~TimerDue) \/ []<><<TimerExpire>>_vars

\* The subactions of d, as a set.
Children(d) == {hk[d]._subactions[i] : i \in 1..Len(hk[d]._subactions)}

\* The definitions no definition has among its subactions.
Roots == {h \in HotKeys : \A p \in HotKeys : h \notin Children(p)}

\* The runs in which the application registers the roots of the README's
\* tree only (a subaction is registered by withSnapshot alone), with the
\* context kept in the history.
InitTree ==
    /\ hk = Chained
    /\ Fresh
    /\ hist = [NoHistory EXCEPT !.keep = "context"]

NextTree ==
    \/ \E h \in Roots : Register(h)
    \/ \E h \in HotKeys : Unregister(h)
    \/ \E eid \in Ids, eventType \in {"Pressed", "Released"} :
          Dispatch(eid, eventType)
    \/ RecoverRoot
    \/ TimerExpire
    \/ Destroy
    \/ Tick

SpecTree == InitTree /\ [][NextTree]_vars

\* The runs of the README's tree, with the unregister() calls kept in the
\* history.
InitUnregister ==
    /\ hk = Chained
    /\ Fresh
    /\ hist = [NoHistory EXCEPT !.keep = "unregistered"]

SpecUnregister == InitUnregister /\ [][Next]_vars

\* The runs of the stroke scenario, with the stroke history kept.
InitStroke ==
    /\ hk = Strokes
    /\ Fresh
    /\ hist = [NoHistory EXCEPT !.keep = "strokes"]

SpecStroke == InitStroke /\ [][Next]_vars

\* The event loop runs a due timeout, and the clock does not stop.
FairSpec == Spec /\ WF_vars(Tick) /\ TimerFairness

(***************************************************************************)
(* The fluent builder of HotKey.  Each method is a function of the         *)
(* instance's fields; a method that throws leaves them as they were.       *)
(***************************************************************************)
Built(this, threw) == [this |-> this, err |-> threw]

\* HotKey.stroke(stroke)
stroke(this, value) == Built([this EXCEPT !._stroke = value], FALSE)

\* HotKey.strokeTimeout(timeout)
strokeTimeout(this, timeout) ==
    Built([this EXCEPT !._strokeTimeout = timeout], FALSE)

\* HotKey.action(action)
action(this, callback) == Built([this EXCEPT !._action = callback], FALSE)

\* HotKey.subaction(subaction)
subaction(this, sub) ==
    IF this._global THEN Built(this, TRUE)
    ELSE Built([this EXCEPT !._subactions = Append(@, sub)], FALSE)

\* HotKey.subactions(subactions)
subactions(this, subs) ==
    IF this._global THEN Built(this, TRUE)
    ELSE Built([this EXCEPT !._subactions = subs], FALSE)

\* HotKey.subactionsTimeout(timeout)
subactionsTimeout(this, timeout) ==
    Built([this EXCEPT !._subactionsTimeout = timeout], FALSE)

\* HotKey.backToRoot(value)
backToRoot(this, value) == Built([this EXCEPT !._backToRoot = value], FALSE)

\* A global that keeps the subactions.
globalKeepsSubactions(this, value) ==
    Built([this EXCEPT !._global = value], FALSE)

\* HotKey.global(value)
global(this, value) ==
    Built([this EXCEPT !._global = value, !._subactions = <<>>], FALSE)

\* The instances the builder runs configure, and the instances they attach.
BuildTargets == {"hA", "hB"}

BuildChildren == {"hB", "hZ"}

ChildLists ==
    UNION {[1..n -> BuildChildren] : n \in 0..MaxChildren}

\* One builder call on instance h with result r.
Call(op, h, r) ==
    /\ hk' = [hk EXCEPT ![h] = r.this]
    /\ evt' = [NoEvent EXCEPT !.op = op, !.hk = h, !.err = r.err]
    /\ UNCHANGED <<globals, locals, root, timeoutRecoverRoot, timers,
                   lastHotKey, lastFire, native, unavailable, destroyed, now,
                   hist>>

SetStroke(h) == \E v \in Stroke : Call("stroke", h, stroke(hk[h], v))

SetStrokeTimeout(h) ==
    \E v \in {MaxStrokeTimeout, 1000} :
        Call("strokeTimeout", h, strokeTimeout(hk[h], v))

SetAction(h) ==
    \E v \in {"noop", "recoverRoot"} : Call("action", h, action(hk[h], v))

AddSubaction(h) ==
    \E c \in BuildChildren :
        /\ Len(hk[h]._subactions) < MaxChildren
        /\ Call("subaction", h, subaction(hk[h], c))

SetSubactions(h) ==
    \E cs \in ChildLists : Call("subactions", h, subactions(hk[h], cs))

SetSubactionsTimeout(h) ==
    \E v \in {NaN, 1000} :
        Call("subactionsTimeout", h, subactionsTimeout(hk[h], v))

SetBackToRoot(h) ==
    \E v \in BOOLEAN : Call("backToRoot", h, backToRoot(hk[h], v))

SetGlobal(h) == \E v \in BOOLEAN : Call("global", h, global(hk[h], v))

InitBuilder ==
    /\ hk = [h \in HotKeys |-> NewHotKey]
    /\ Fresh
    /\ hist = NoHistory

NextBuilder ==
    \/ SetStroke("hA")
    \/ SetStrokeTimeout("hA")
    \/ SetAction("hA")
    \/ SetSubactionsTimeout("hA")
    \/ SetBackToRoot("hA")
    \/ \E h \in BuildTargets : AddSubaction(h)
    \/ \E h \in BuildTargets : SetSubactions(h)
    \/ \E h \in BuildTargets : SetGlobal(h)

SpecBuilder == InitBuilder /\ [][NextBuilder]_vars

(***************************************************************************)
(* Properties.                                                             *)
(***************************************************************************)
\* The definitions that are registered now, in either scope.
Active == {globals[k] : k \in DOMAIN globals} \cup {locals[k] : k \in DOMAIN locals}

ModSet(h) == {mods(h)[i] : i \in 1..Len(mods(h))}

SameCombination(d1, d2) == code(d1) = code(d2) /\ ModSet(d1) = ModSet(d2)

\* The step is operation op (a step that changes nothing is no operation).
Did(op) == evt'.op = op

\* C1: registering a definition D2 while a distinct definition D1 with the
\* same (modifiers, keyCode) is registered, at root or inside a subaction
\* context, throws the duplicate-hotkey error and changes neither globals
\* nor locals nor what the native core holds.
DuplicateRejected ==
    [][(/\ Did("register")
        /\ \E d1 \in Active : d1 # evt'.hk /\ SameCombination(d1, evt'.hk))
       => /\ evt'.err
          /\ evt'.calls = 0
          /\ UNCHANGED <<globals, locals, native, root, timers>>]_vars

\* C1 happens: inside a subaction context in which hB is local, registering
\* hB2 (same combination) has thrown.
DuplicateRejectedWitness ==
    /\ evt.op = "register" /\ evt.hk = "hB2" /\ evt.err
    /\ root # Undefined
    /\ id("hB") \in DOMAIN locals /\ locals[id("hB")] = "hB"

\* The pressed event of this step reached definition d.
Pressed(d) == Did("press") /\ evt'.hk = d

\* The last pressed event before this step reached d, did not fire, and
\* lies `elapsed` milliseconds back.
PendingFirst(d) == hist.prevPress.hk = d /\ ~hist.prevPress.fired

Elapsed == now - hist.prevPress.at

\* C2: for a double-stroke definition D with stroke timeout T, a press of D
\* that directly follows a non-firing press of D fires D's action exactly
\* once when it lands at elapsed time <= T (T itself included); when it
\* lands later it fires nothing and is the new pending first stroke; a press
\* of D that follows a press of another definition (or none) fires nothing.
DoubleStroke ==
    [][\A d \in HotKeys :
          (Pressed(d) /\ hk[d]._stroke = "Double")
          => /\ (PendingFirst(d) /\ Elapsed <= hk[d]._strokeTimeout)
                => evt'.invoked = <<d>>
             /\ (PendingFirst(d) /\ Elapsed > hk[d]._strokeTimeout)
                => /\ evt'.invoked = <<>>
                   /\ lastHotKey' = d /\ lastFire' = now
                   /\ hist'.prevPress = [hk |-> d, at |-> now, fired |-> FALSE]
             /\ hist.prevPress.hk # d => evt'.invoked = <<>>]_vars

\* C2 happens: a double-stroke definition has fired at a time at which its
\* first stroke can lie a full stroke timeout back.
DoubleStrokeWitness ==
    /\ evt.op = "press" /\ evt.hk # "none"
    /\ hk[evt.hk]._stroke = "Double"
    /\ evt.invoked = <<evt.hk>>
    /\ now >= hk[evt.hk]._strokeTimeout

\* C3: every pressed event that reaches a single-stroke definition invokes
\* its action exactly once, whatever the clock and the pending stroke are.
SingleStroke ==
    (evt.op = "press" /\ evt.hk # "none" /\ hk[evt.hk]._stroke = "Single")
    => evt.invoked = <<evt.hk>>

\* C3 happens: a single-stroke definition has fired on a press that directly
\* followed another definition's press.
SingleStrokeWitness ==
    /\ evt.op = "press" /\ evt.hk # "none"
    /\ hk[evt.hk]._stroke = "Single"
    /\ evt.invoked = <<evt.hk>>
    /\ lastHotKey = evt.hk
    /\ now > 0

\* The pressed event of this step fired d, whose action returned, so that
\* d's subaction list (not empty) was handed to withSnapshot.
Descends(d) ==
    /\ Pressed(d) /\ evt'.fired
    /\ hk[d]._subactions # <<>>
    /\ ~runAction(Cur, d).err

\* C4 as claimed: when a definition with subactions fires, locals holds
\* afterwards exactly the identities of its subactions, each bound to that
\* subaction, and globals is what it was.
ChildrenReplaceLocalsExactly ==
    [][\A d \in HotKeys :
          (Pressed(d) /\ evt'.fired /\ hk[d]._subactions # <<>>)
          => /\ DOMAIN locals' = {id(c) : c \in Children(d)}
             /\ \A k \in DOMAIN locals' : locals'[k] \in Children(d)
             /\ globals' = globals]_vars

\* Registering d's subactions in list order stops at index i: the identity
\* of that subaction is a key of globals, or an earlier subaction that the
\* native core accepted holds it.
Collides(d, i) ==
    id(hk[d]._subactions[i]) \in
        DOMAIN globals
        \cup ({id(hk[d]._subactions[j]) : j \in 1..(i - 1)} \ unavailable)

\* The subactions of d that come before the first one that collides.
Reached(d) ==
    {i \in 1..Len(hk[d]._subactions) : \A j \in 1..i : ~Collides(d, j)}

\* C4 as amended: when a definition with subactions fires (and its action
\* returns), no earlier local stays, globals is what it was, and the
\* subactions are registered in list order up to the first whose identity
\* globals or an earlier accepted subaction holds, where the
\* duplicate-hotkey error is thrown: locals holds afterwards exactly the
\* subactions before that point whose combination the native core accepts
\* (all the accepted subactions when none collides), each under its own
\* identity.
ChildrenReplaceLocals ==
    [][\A d \in HotKeys :
          Descends(d)
          => /\ DOMAIN locals' =
                   {id(hk[d]._subactions[i]) : i \in Reached(d)} \ unavailable
             /\ \A k \in DOMAIN locals' :
                   locals'[k] \in Children(d) /\ id(locals'[k]) = k
             /\ globals' = globals
             /\ evt'.err <=> Reached(d) # 1..Len(hk[d]._subactions)]_vars

\* C4 happens: while a global is registered, a definition with subactions
\* has fired from a context that had locals; one subaction was refused by
\* the native core and the other is the only local now.
ChildrenReplaceLocalsWitness ==
    /\ evt.op = "press" /\ evt.fired /\ ~evt.err
    /\ evt.hk = "hA" /\ hk["hA"]._subactions = <<"hX", "hZ">>
    /\ root # Undefined /\ Len(root) > 1
    /\ DOMAIN locals = {id("hZ")}
    /\ DOMAIN globals # {}

\* This step runs recoverRoot() to its end: an explicit call, a due
\* timeout, or a definition without subactions that fires.
Recovers ==
    \/ Did("recoverRoot")
    \/ Did("timer")
    \/ Did("press") /\ evt'.fired /\ hk[evt'.hk]._subactions = <<>>

\* C5: the snapshot is taken on the first descent only: when recoverRoot()
\* runs after any number of nested descents (with nothing but events,
\* timeouts and recoverRoot() calls since the snapshot was taken), locals
\* holds exactly the identities that were local before the first descent,
\* the snapshot is cleared and no revert timer is left.
RecoverRestoresRoot ==
    [][(Recovers /\ root # Undefined /\ hist.pure > 0)
       => /\ root' = Undefined
          /\ DOMAIN locals' = hist.base
          /\ \A k \in DOMAIN locals' : id(locals'[k]) = k
          /\ timers' = {} /\ timeoutRecoverRoot' = 0]_vars

\* C5 happens: the root was recovered after a descent into a second level,
\* and the locals of before the first descent are back.
RecoverRestoresRootWitness ==
    /\ evt.op \in {"recoverRoot", "timer", "press"}
    /\ root = Undefined
    /\ hist.recovered >= 2
    /\ hist.base # {} /\ DOMAIN locals = hist.base

\* C6 as claimed: after a definition with subactions and a numeric
\* subactions timeout has fired, if no further event is dispatched (nothing
\* but time passes, and only events, timeouts and recoverRoot() calls came
\* since the snapshot was taken), the revert timer expires and recovers the
\* root: no snapshot, and the locals of before the descent.
TimerAlwaysReverts ==
    (hist.armed /\ hist.pure > 0)
    ~> \/ root = Undefined /\ timers = {} /\ DOMAIN locals = hist.base
       \/ ~hist.armed

\* What holds of C6: when withSnapshot has scheduled the revert timer (it
\* has registered the subactions without a duplicate-hotkey error), the
\* timer expires and recovers the root.
TimerReverts ==
    (hist.armed /\ hist.pure > 0 /\ root # Undefined /\ timers # {})
    ~> \/ /\ evt.op = "timer" /\ root = Undefined /\ timers = {}
          /\ DOMAIN locals = hist.base
       \/ ~hist.armed

\* C7 as claimed: a definition without subactions and with
\* backToRoot(false) that fires inside a subaction context recovers
\* nothing: locals, snapshot and revert timer stay as they are.
NoRevertWithoutBackToRoot ==
    [][\A d \in HotKeys :
          (/\ Pressed(d) /\ evt'.fired
           /\ hk[d]._subactions = <<>> /\ ~hk[d]._backToRoot
           /\ hk[d]._action = "noop"
           /\ root # Undefined)
          => UNCHANGED <<locals, root, timers, timeoutRecoverRoot>>]_vars

\* C8 as claimed: once destroy() was called, globals and locals are empty
\* and no revert timer is outstanding.
DestroyClearsEverything ==
    destroyed => (DOMAIN globals = {} /\ DOMAIN locals = {} /\ timers = {})

\* C9: whatever builder calls were made, a definition whose global flag is
\* set has no subactions, and subaction()/subactions() on such a definition
\* throws and leaves the definition as it was.
GlobalHasNoChildren ==
    [][/\ \A h \in HotKeys : hk'[h]._global => hk'[h]._subactions = <<>>
       /\ \A h \in HotKeys :
             ((Did("subaction") \/ Did("subactions")) /\ evt'.hk = h
              /\ hk[h]._global)
             => (evt'.err /\ hk' = hk)]_vars

\* C9 happens: subaction() has thrown on a global definition that had been
\* given subactions before it was made global.
GlobalHasNoChildrenWitness ==
    /\ evt.op = "subaction" /\ evt.err
    /\ hk[evt.hk]._global /\ hk[evt.hk]._subactions = <<>>
    /\ \E h \in HotKeys : hk[h]._subactions # <<>>

\* C10: no identity is a key of both globals and locals.
ScopesDisjoint == DOMAIN globals \cap DOMAIN locals = {}

\* C10 happens: both scopes hold definitions inside a subaction context.
ScopesDisjointWitness ==
    /\ DOMAIN globals # {} /\ DOMAIN locals # {}
    /\ root # Undefined /\ root # <<>>

\* C11: at most one revert timer is outstanding, and it is the one
\* timeoutRecoverRoot names; entering a subaction context leaves no timer
\* of an earlier descent behind: afterwards the only timer (if the
\* subactions timeout is a number and no error was thrown) is the one this
\* descent has scheduled.
OneRevertTimer ==
    [][/\ Cardinality(timers') <= 1
       /\ \A t \in timers' : t.handle = timeoutRecoverRoot'
       /\ \A d \in HotKeys :
             Descends(d)
             => timers' =
                  IF evt'.err \/ isNaN(hk[d]._subactionsTimeout) THEN {}
                  ELSE {[handle |-> timeoutRecoverRoot',
                         at |-> now + Min(hk[d]._subactionsTimeout,
                                          MaxDelay)]}]_vars

\* C11 happens: a second descent has replaced the timer of the first while
\* that timer was pending.
OneRevertTimerWitness ==
    /\ evt.op = "press" /\ evt.hk = "hB" /\ evt.fired /\ ~evt.err
    /\ root = <<"hA">> /\ hist.pure = 2
    /\ timers = {[handle |-> timeoutRecoverRoot, at |-> now + MaxSubTimeout]}

\* C12: register() of a definition whose identity is a key of neither
\* globals nor locals throws nothing and asks the native core once; when
\* the native core accepts, the definition is put under its identity into
\* the scope asked for and the other scope is left alone; when it refuses,
\* both scopes are left alone.
RegisterBestEffort ==
    [][\A h \in HotKeys :
          (/\ Did("register") /\ evt'.hk = h
           /\ id(h) \notin DOMAIN globals \cup DOMAIN locals)
          => /\ ~evt'.err /\ evt'.calls = 1
             /\ IF nativeRegister(Cur, h).ok
                THEN IF hk[h]._global
                     THEN globals' = Put(globals, id(h), h) /\ locals' = locals
                     ELSE locals' = Put(locals, id(h), h) /\ globals' = globals
                ELSE globals' = globals /\ locals' = locals
             /\ UNCHANGED <<root, timers, timeoutRecoverRoot>>]_vars

\* C12 happens: with a global and a local registered, register() of a
\* definition the native core refuses has returned without error and
\* without a trace in either scope.
RegisterBestEffortWitness ==
    /\ evt.op = "register" /\ evt.hk = "hX" /\ ~evt.err /\ evt.calls = 1
    /\ id("hX") \notin DOMAIN globals \cup DOMAIN locals
    /\ DOMAIN globals # {} /\ DOMAIN locals # {}

\* C13: recoverRoot() with no snapshot pending makes no native call, throws
\* nothing and changes no variable of the manager or of the stroke
\* detector; and a recoverRoot() that directly follows a recoverRoot()
\* changes nothing.
RecoverRootIdle ==
    [][/\ (Did("recoverRoot") /\ root = Undefined)
          => /\ evt'.calls = 0 /\ ~evt'.err /\ evt'.invoked = <<>>
             /\ UNCHANGED <<globals, locals, root, timeoutRecoverRoot, timers,
                            lastHotKey, lastFire, native>>
       /\ (Did("recoverRoot") /\ evt.op = "recoverRoot")
          => UNCHANGED <<globals, locals, root, timeoutRecoverRoot, timers,
                         lastHotKey, lastFire, native>>]_vars

\* C13 happens: recoverRoot() was called at root, after a press, with a
\* global and a local registered, and made no native call.
RecoverRootIdleWitness ==
    /\ evt.op = "recoverRoot" /\ evt.calls = 0
    /\ root = Undefined
    /\ DOMAIN globals # {} /\ DOMAIN locals # {}
    /\ lastHotKey # "null"

\* The definitions that have c among their subactions.
Parents(c) == {p \in HotKeys : c \in Children(p)}

\* C14: the action of a definition that is only a subaction (the
\* application never registers it) is invoked only by a pressed event that
\* arrives while a snapshot is pending and the context was entered by one
\* of its parents; at root, in a context another definition entered, and
\* after the recovery of the root (by call, by firing or by timeout) a
\* pressed event with its identity invokes nothing of it.
ChildOnlyInParentContext ==
    [][\A c \in HotKeys \ Roots :
          (Did("press") /\ \E i \in 1..Len(evt'.invoked) : evt'.invoked[i] = c)
          => root # Undefined /\ hist.ctx \in Parents(c)]_vars

\* C14 happens: Z, a subaction of B only, has fired in the context B
\* entered from the context of Ctrl+A (and has recovered the root).
ChildOnlyInParentContextWitness ==
    /\ evt.op = "press" /\ evt.invoked = <<"hZ">>
    /\ root = Undefined /\ hist.recovered = 2
    /\ DOMAIN locals = {id("hA")}

\* C15: the pending stroke is one for all definitions: a press of a
\* double-stroke definition D that follows the press of another definition
\* E, which itself followed a press of D, invokes nothing, however short
\* the time since that earlier press of D, and is the new pending first
\* stroke; so alternating presses of two double-stroke definitions fire
\* neither.
PendingStrokeShared ==
    [][\A d \in HotKeys :
          (/\ Pressed(d) /\ hk[d]._stroke = "Double"
           /\ hist.prevPress.hk \notin {d, "none"}
           /\ hist.strokes.prev2.hk = d)
          => /\ evt'.invoked = <<>>
             /\ lastHotKey' = d /\ lastFire' = now]_vars

\* C15 happens: between two double-stroke definitions, a press of D has
\* not fired although it came within D's stroke timeout of the press of D
\* before the press of E.
PendingStrokeSharedWitness ==
    /\ evt.op = "press" /\ evt.hk # "none" /\ evt.invoked = <<>>
    /\ hk[evt.hk]._stroke = "Double"
    /\ hist.strokes.alt
    /\ hk[hist.strokes.prev2.hk]._stroke = "Double"

\* C16: a double-stroke definition that fires leaves no pending stroke
\* (lastFire is the sentinel); the press of it that follows, however soon,
\* invokes nothing and is a new first stroke; and of n presses in a row of
\* one double-stroke definition, each within the stroke timeout of the one
\* before, n \div 2 fire.
FiresEverySecondPress ==
    [][/\ \A d \in HotKeys :
             (Pressed(d) /\ hk[d]._stroke = "Double")
             => /\ evt'.fired => lastFire' = MinDate
                /\ (hist.prevPress.hk = d /\ hist.prevPress.fired)
                   => /\ evt'.invoked = <<>>
                      /\ lastHotKey' = d /\ lastFire' = now
       /\ (Did("press") /\ evt'.hk # "none"
           /\ hk[evt'.hk]._stroke = "Double")
          => hist'.strokes.fires = hist'.strokes.n \div 2]_vars

\* C16 happens: the fourth press in a row of a double-stroke definition
\* has fired, the third had not, the second had.
FiresEverySecondPressWitness ==
    /\ evt.op = "press" /\ evt.hk # "none" /\ evt.fired
    /\ hk[evt.hk]._stroke = "Double"
    /\ hist.strokes.n = 4 /\ hist.strokes.fires = 2
    /\ hist.strokes.prev2 = [hk |-> evt.hk, at |-> now, fired |-> FALSE]

\* The identities of the root context: those local now when no snapshot
\* is pending, else those that were local when the snapshot was taken.
RootLocals == IF root = Undefined THEN DOMAIN locals ELSE hist.base

\* The pressed event of this step fired d, whose action calls
\* recoverRoot(), at root or in a context that only events, timeouts and
\* recoverRoot() calls have touched since the snapshot was taken.
FiresRecovering(d) ==
    /\ Pressed(d) /\ evt'.fired
    /\ hk[d]._action = "recoverRoot"
    /\ root = Undefined \/ hist.pure > 0

\* C17 as claimed: an action that calls recoverRoot() runs first, and the
\* event ends in a consistent state: a definition without subactions
\* leaves the manager at root with the root's locals, no snapshot and no
\* timer; a definition with subactions leaves locals = exactly its
\* subactions and the snapshot = the root's locals.
ActionThenPolicy ==
    [][\A d \in HotKeys :
          FiresRecovering(d)
          => /\ evt'.invoked = <<d>>
             /\ IF hk[d]._subactions = <<>>
                THEN /\ root' = Undefined /\ timers' = {}
                     /\ DOMAIN locals' = RootLocals
                ELSE /\ root' # Undefined
                     /\ {id(root'[i]) : i \in 1..Len(root')} = RootLocals
                     /\ DOMAIN locals' = {id(c) : c \in Children(d)}]_vars

\* What holds of C17: the same, for the events that end without the
\* duplicate-hotkey error, with locals = the subactions the native core
\* accepts.
ActionThenPolicyUnlessThrown ==
    [][\A d \in HotKeys :
          (FiresRecovering(d) /\ ~evt'.err)
          => /\ evt'.invoked = <<d>>
             /\ IF hk[d]._subactions = <<>>
                THEN /\ root' = Undefined /\ timers' = {}
                     /\ DOMAIN locals' = RootLocals
                ELSE /\ root' # Undefined
                     /\ {id(root'[i]) : i \in 1..Len(root')} = RootLocals
                     /\ DOMAIN locals' =
                           {id(c) : c \in Children(d)} \ unavailable]_vars

\* C18 as claimed: no definition of the snapshot has its identity among the
\* keys of globals, and a recoverRoot() that finds a snapshot (called by
\* the application, by a timeout or by a definition without subactions
\* that fires) throws nothing and clears the snapshot.
RecoveryNeverThrows ==
    [][/\ root' # Undefined
          => {id(root'[i]) : i \in 1..Len(root')} \cap DOMAIN globals' = {}
       /\ (Recovers /\ root # Undefined /\ ~destroyed)
          => ~evt'.err /\ root' = Undefined]_vars

\* C19 as claimed: a pressed event that throws the duplicate-hotkey error
\* while the subactions are registered leaves locals, globals, the
\* snapshot and the revert timer as they were.
DescentAllOrNothing ==
    [][\A d \in HotKeys :
          (Descends(d) /\ evt'.err)
          => UNCHANGED <<locals, globals, root, timers,
                         timeoutRecoverRoot>>]_vars

\* C20 as claimed: the definition the application has last called
\* unregister() for, with no register() of it since (by the application, or by a
\* descent that has it among the subactions), is in neither scope and its
\* action is not invoked, whatever recoveries and timeouts happen.
UnregisteredStaysAway ==
    hist.gone # "none"
    => /\ hist.gone \notin Active
       /\ \A i \in 1..Len(evt.invoked) : evt.invoked[i] # hist.gone

====
